---- MODULE Spec2Model ----
(***************************************************************************)
(* Points / streak / reward ledger (PointsProvider) of the application,    *)
(* together with the two Firestore collections it reads and writes         *)
(* ('userStats' and 'users') and the device clock it consults, and the   *)
(* screens that call it: the task lists of the Home and Tasks screens      *)
(* (collection 'tasks'), the shop (collection 'userInventory') and the    *)
(* Settings screen's Clear All Data.                                       *)
(*                                                                         *)
(* Every exported ledger function is an async function: it runs           *)
(* synchronously up to its next `await` of a Firestore call and is resumed *)
(* when that call resolves or rejects.  Each action below is one such      *)
(* synchronous segment: the `_call` action is the segment from the call to *)
(* the first await, the others are the continuation after the named        *)
(* Firestore call, for both outcomes of that call (ok = resolved,          *)
(* ~ok = rejected and handled by the function's catch block).              *)
(***************************************************************************)
EXTENDS Integers, FiniteSets, Sequences, TLC

\* ---- bounds of the model ------------------------------------------------
MaxOps == 3            \* ledger calls and data clearings in one behaviour
MaxDays == 3           \* device clock stays within days 0 .. MaxDays-1
MaxScans == 2          \* checkAndResetTasks calls in one behaviour
MaxToggles == 2        \* toggleTask calls in one behaviour
MaxVisits == 2         \* mounts of the shop screen in one behaviour

\* ---- program constants --------------------------------------------------
POINTS_PER_TASK == 20
DAILY_TASK_BASE_POINTS == 10
STREAK_BONUS_MULTIPLIER == 2

\* ---- environment --------------------------------------------------------
Users == {"u1"}
NoUser == "none"
NoDate == -1                     \* lastDailyTaskDate: null
Slots == {1, 2}                  \* async ledger calls that can be in flight
HoursPerDay == 24
TickHours == 12                  \* granularity of the modelled clock
\* time zones of the device: local standard time = UTC + tz hours; dst tells
\* whether the zone puts its clocks forward one hour on local day DstDay
\* (a zone west of UTC, and a zone east of it with daylight time)
Zones == {[tz |-> -5, dst |-> FALSE], [tz |-> 12, dst |-> TRUE]}
DstDay == 1
PointArgs == {-POINTS_PER_TASK, POINTS_PER_TASK, 50}
PriceArgs == {-POINTS_PER_TASK, 0, POINTS_PER_TASK}

VARIABLES
  currentUser,          \* auth.currentUser
  heartPoints,          \* React state of PointsProvider
  totalTasksCompleted,
  dailyStreak,
  loading,
  userStats,            \* collection 'userStats', one document per user
  users,                \* collection 'users' (profile with leaderboard score)
  now,                  \* device clock, hours since day 0 00:00 UTC
  tz,                   \* standard-time offset of the device's zone
  dst,                  \* whether the zone goes to daylight time on DstDay
  ops,                  \* the async calls in flight, with their closures
  nOps,                 \* number of ledger calls and data clearings so far
  lastAward,            \* history: per user, the `today` of the latest daily-task
                        \* addPoints call that returned, and whether its
                        \* userStats writes all succeeded
  tasks,                \* collection 'tasks'
  shownTasks,           \* React state `tasks` of the Home / Tasks screen
  scan,                 \* the checkAndResetTasks call in flight
  toggle,               \* the toggleTask call in flight
  userInventory,        \* collection 'userInventory', one document per user
  inventory,            \* React state `inventory` of the shop screen
  purchase              \* the handlePurchase call in flight

vars == <<currentUser, heartPoints, totalTasksCompleted, dailyStreak, loading,
          userStats, users, now, tz, dst, ops, nOps, lastAward,
          tasks, shownTasks, scan, toggle, userInventory, inventory, purchase>>

mem == <<heartPoints, totalTasksCompleted, dailyStreak, loading>>
store == <<userStats, users>>
env == <<now, tz, dst>>
home == <<tasks, shownTasks, scan, toggle>>
shop == <<userInventory, inventory, purchase>>
app == <<home, shop>>

\* ---- dates ----------------------------------------------------------------
\* new Date().toISOString().split('T')[0]: the UTC calendar day of an instant
IsoDay(t) == t \div HoursPerDay

\* new Date("YYYY-MM-DD"): a date-only string is parsed as UTC midnight
ParseIsoDay(d) == d * HoursPerDay

\* the instant at which the zone switches to daylight time: 02:00 local
\* standard time on DstDay
DstStart == DstDay * HoursPerDay + 2 - tz

\* offset of local time from UTC in force at instant t
TzOffset(t) == tz + (IF dst /\ t >= DstStart THEN 1 ELSE 0)

\* date.setHours(0, 0, 0, 0); date.getTime(): the instant of local midnight
\* of the local calendar day that contains t
LocalMidnight(t) ==
  LET localDay == (t + TzOffset(t)) \div HoursPerDay
      std == localDay * HoursPerDay - tz
  IN  IF dst /\ std - 1 >= DstStart THEN std - 1 ELSE std

\* Math.floor((today.getTime() - lastTaskDate.getTime()) / 86400000)
daysDifference(t, lastDate) ==
  (LocalMidnight(t) - LocalMidnight(ParseIsoDay(lastDate))) \div HoursPerDay

\* a reset already for a gap of one day
StreakBrokenAtOneDay(t, lastDate, cu) ==
  lastDate # NoDate /\ cu # NoUser /\ daysDifference(t, lastDate) >= 1
\* checkAndUpdateStreak decides to reset (and awaits the reset write)
StreakBroken(t, lastDate, cu) ==
  /\ lastDate # NoDate
  /\ cu # NoUser
  /\ daysDifference(t, lastDate) > 1

\* the bonus computed from the streak before its increment
calculateDailyTaskPointsOldStreak(currentStreak) ==
  DAILY_TASK_BASE_POINTS + ((currentStreak - 1) * STREAK_BONUS_MULTIPLIER)
calculateDailyTaskPoints(currentStreak) ==
  DAILY_TASK_BASE_POINTS + (currentStreak * STREAK_BONUS_MULTIPLIER)

\* a balance computed without the clamp at zero
MaxUnclamped(a, b) == b
Max(a, b) == IF a >= b THEN a ELSE b

\* ---- documents ------------------------------------------------------------
NoStats == [exists |-> FALSE, heartPoints |-> 0, totalTasksCompleted |-> 0,
            dailyStreak |-> 0, lastDailyTaskDate |-> NoDate]
\* a first record that starts the streak at one
initialStatsStreakOne == [exists |-> TRUE, heartPoints |-> 0,
                          totalTasksCompleted |-> 0, dailyStreak |-> 1,
                          lastDailyTaskDate |-> NoDate]
\* lines 152-158: const initialStats: UserStats = {...all zero, date null}
initialStats == [exists |-> TRUE, heartPoints |-> 0, totalTasksCompleted |-> 0,
                 dailyStreak |-> 0, lastDailyTaskDate |-> NoDate]

\* What the two collections hold for a user when the provider is constructed:
\* nothing but the profile written (or not) by the sign-up screen, or the
\* documents left by an earlier run of the app in which the user completed two
\* daily tasks on day 0 (12 + 10 points, streak 1, two completions).
FirstRun == {[stats |-> NoStats, profile |-> [exists |-> e, score |-> 0]] :
               e \in BOOLEAN}
EarlierRun == {[stats |-> [exists |-> TRUE,
                           heartPoints |-> calculateDailyTaskPoints(1)
                                           + DAILY_TASK_BASE_POINTS,
                           totalTasksCompleted |-> 2, dailyStreak |-> 1,
                           lastDailyTaskDate |-> 0],
                profile |-> [exists |-> TRUE,
                             score |-> calculateDailyTaskPoints(1)
                                       + DAILY_TASK_BASE_POINTS]]}

NoAward == [day |-> NoDate, ok |-> FALSE]
Awarded(op, ok) ==
  IF op.isDailyTask /\ op.points > 0
  THEN [lastAward EXCEPT ![op.uid] = [day |-> op.today, ok |-> ok]]
  ELSE lastAward

\* ---- calls in flight ------------------------------------------------------
Snapshot(u) ==
  [heartPoints |-> heartPoints, totalTasksCompleted |-> totalTasksCompleted,
   dailyStreak |-> dailyStreak,
   stats |-> IF u \in Users THEN userStats[u] ELSE NoStats,
   score |-> IF u \in Users THEN users[u].score ELSE 0,
   lastAward |-> IF u \in Users THEN lastAward[u] ELSE NoAward]

IdleOp ==
  [kind |-> "idle", pc |-> "idle", uid |-> NoUser, cuid |-> NoUser,
   points |-> 0, isDailyTask |-> FALSE,
   c_heartPoints |-> 0, c_totalTasksCompleted |-> 0, c_dailyStreak |-> 0,
   today |-> NoDate, pointsToAdd |-> 0, newPoints |-> 0, newStreak |-> 0,
   ret |-> "pending", failed |-> "none", issued |-> {},
   duringLoad |-> FALSE,
   pre |-> [heartPoints |-> 0, totalTasksCompleted |-> 0, dailyStreak |-> 0,
            stats |-> NoStats, score |-> 0, lastAward |-> NoAward]]

\* a call: its arguments, the values its closure captured from the render in
\* which it was created (c_*), and a record of what it has done so far and
\* of whether it was made while a load had not yet set the in-memory values
NewOp(kind, pc, u) ==
  [IdleOp EXCEPT !.kind = kind, !.pc = pc, !.uid = u,
                 !.duringLoad = \E s \in Slots : ops[s].pc \in {"l_getDoc", "l_setDoc"},
                 !.c_heartPoints = heartPoints,
                 !.c_totalTasksCompleted = totalTasksCompleted,
                 !.c_dailyStreak = dailyStreak,
                 !.pre = Snapshot(u)]

\* a screen handler is about to be resumed by the ledger call it awaited
Resuming ==
  \/ toggle.pc \in {"t_addPoints", "t_increment", "t_removePoints"}
  \/ purchase.pc \in {"p_subtractPoints", "p_refreshPoints"}

\* no ledger call is in flight and none is about to be made
Quiet == (\A s \in Slots : ops[s].pc \in {"idle", "done"}) /\ ~Resuming

\* the callers await each ledger call before issuing the next one (a call
\* that is alone in flight is kept in the first slot)
CanStart(s) == s = 1 /\ Quiet /\ nOps < MaxOps

\* the record of a returned call is kept until the next event
Forget ==
  [s \in Slots |-> IF ops[s].pc \in {"idle", "done"} THEN IdleOp ELSE ops[s]]

\* ---- the screens' collections and calls, before anything is on them ------
TaskIds == {1, 2}
NoTask == [exists |-> FALSE, userId |-> NoUser, repeatType |-> "CUSTOM",
           completed |-> FALSE, lastCompletedDate |-> NoDate]
\* the records of a screen call when it is made
NewScan == [pc |-> "idle", uid |-> NoUser,
            found |-> [t \in TaskIds |-> NoTask], decided |-> {},
            at |-> 0, pending |-> {}, failed |-> "none", n |-> 0]
NewToggle == [pc |-> "idle", task |-> 0, repeatType |-> "CUSTOM",
              newCompletedStatus |-> FALSE, at |-> 0,
              shown |-> [t \in TaskIds |-> "none"],
              failed |-> "none", ledgerOk |-> TRUE, n |-> 0,
              pre |-> [heartPoints |-> 0],
              first |-> [task |-> 0, heartPoints |-> 0, ok |-> FALSE]]
NoInventory == [exists |-> FALSE, ownedItems |-> <<>>, activeBoosts |-> <<>>]
NoItem == [id |-> "none", price |-> 0, category |-> "none", duration |-> 0]
NewPurchase == [pc |-> "idle", kind |-> "none", uid |-> NoUser, item |-> NoItem,
                failed |-> "none", n |-> 0, at |-> 0,
                c_inventory |-> [ownedItems |-> <<>>, activeBoosts |-> <<>>],
                pre |-> [stats |-> NoStats, inventory |-> NoInventory]]

\* no screen call has been made yet: only the position and the counters
IdleScan == [pc |-> "idle", decided |-> {}, pending |-> {}, failed |-> "none",
             n |-> 0]
IdleToggle == [pc |-> "idle", n |-> 0]
IdlePurchase == [pc |-> "idle", n |-> 0]

\* no task, no inventory document, no screen call in flight
InitHome ==
  /\ tasks = [t \in TaskIds |-> NoTask]
  /\ shownTasks = [t \in TaskIds |-> "none"]
  /\ scan = IdleScan
  /\ toggle = IdleToggle

InitShop ==
  /\ userInventory = [u \in Users |-> NoInventory]
  /\ inventory = [ownedItems |-> <<>>, activeBoosts |-> <<>>]
  /\ purchase = IdlePurchase

InitLedger ==
  /\ currentUser = NoUser
  /\ heartPoints = 0
  /\ totalTasksCompleted = 0
  /\ dailyStreak = 0
  /\ loading = TRUE
  /\ \E docs \in [Users -> FirstRun \cup EarlierRun] :
       /\ userStats = [u \in Users |-> docs[u].stats]
       /\ users = [u \in Users |-> docs[u].profile]
       /\ lastAward = [u \in Users |->
                        [day |-> docs[u].stats.lastDailyTaskDate,
                         ok |-> docs[u].stats.exists]]
  /\ now = 0
  /\ \E z \in Zones : tz = z.tz /\ dst = z.dst
  /\ ops = [s \in Slots |-> IdleOp]
  /\ nOps = 0

Init == InitLedger /\ InitHome /\ InitShop

\* ---- loadUserStats --------------------------------------------------------
loadUserStats_call(s, userId) ==
  /\ loading' = TRUE
  /\ ops' = [Forget EXCEPT ![s] = NewOp("load", "l_getDoc", userId)]
  /\ nOps' = nOps + 1
  /\ UNCHANGED <<heartPoints, totalTasksCompleted, dailyStreak, store, env,
                 lastAward>>

\* continuation after `await getDoc(userStatsRef)`
loadUserStats_getDoc(s, ok) ==
  LET op == ops[s]
      data == userStats[op.uid]
  IN
  /\ op.pc = "l_getDoc"
  /\ IF ~ok
     THEN /\ loading' = FALSE
          /\ ops' = [ops EXCEPT ![s].pc = "done", ![s].failed = "getDoc"]
          /\ UNCHANGED <<heartPoints, totalTasksCompleted, dailyStreak>>
     ELSE IF data.exists
     THEN /\ heartPoints' = data.heartPoints
          /\ totalTasksCompleted' = data.totalTasksCompleted
          /\ IF StreakBroken(now, data.lastDailyTaskDate, currentUser)
             THEN /\ ops' = [ops EXCEPT ![s].pc = "l_resetStreak",
                                        ![s].cuid = currentUser]
                  /\ UNCHANGED <<dailyStreak, loading>>
             ELSE /\ dailyStreak' = data.dailyStreak
                  /\ loading' = FALSE
                  /\ ops' = [ops EXCEPT ![s].pc = "done"]
     ELSE /\ ops' = [ops EXCEPT ![s].pc = "l_setDoc"]
          /\ UNCHANGED <<heartPoints, totalTasksCompleted, dailyStreak, loading>>
  /\ UNCHANGED <<currentUser, store, env, nOps, lastAward>>
  /\ UNCHANGED app

\* continuation after the `await updateDoc` of checkAndUpdateStreak
loadUserStats_resetStreak(s, ok) ==
  LET op == ops[s]
      written == ok /\ userStats[op.cuid].exists
  IN
  /\ op.pc = "l_resetStreak"
  /\ IF written
     THEN /\ userStats' = [userStats EXCEPT ![op.cuid].dailyStreak = 0]
          /\ dailyStreak' = 0
          /\ ops' = [ops EXCEPT ![s].pc = "done",
                                ![s].issued = @ \cup {"dailyStreak"}]
     ELSE /\ ops' = [ops EXCEPT ![s].pc = "done", ![s].failed = "resetStreak",
                                ![s].issued = @ \cup {"dailyStreak"}]
          /\ UNCHANGED <<userStats, dailyStreak>>
  /\ loading' = FALSE
  /\ UNCHANGED <<currentUser, heartPoints, totalTasksCompleted, users, env, nOps, lastAward>>
  /\ UNCHANGED app

\* continuation after `await setDoc(userStatsRef, initialStats)`
loadUserStats_setDoc(s, ok) ==
  LET op == ops[s] IN
  /\ op.pc = "l_setDoc"
  /\ IF ok
     THEN /\ userStats' = [userStats EXCEPT ![op.uid] = initialStats]
          /\ heartPoints' = 0
          /\ totalTasksCompleted' = 0
          /\ dailyStreak' = 0
          /\ ops' = [ops EXCEPT ![s].pc = "done",
                                ![s].issued = @ \cup {"initialStats"}]
     ELSE /\ ops' = [ops EXCEPT ![s].pc = "done", ![s].failed = "setDoc",
                                ![s].issued = @ \cup {"initialStats"}]
          /\ UNCHANGED <<userStats, heartPoints, totalTasksCompleted, dailyStreak>>
  /\ loading' = FALSE
  /\ UNCHANGED <<currentUser, users, env, nOps, lastAward>>
  /\ UNCHANGED app

\* the guard placed after loadUserStats' setLoading(true)
NotAuthenticatedLoading(s, kind, result) ==
  /\ currentUser = NoUser
  /\ loading' = TRUE
  /\ ops' = [Forget EXCEPT ![s] = [NewOp(kind, "done", NoUser) EXCEPT !.ret = result]]
  /\ nOps' = nOps + 1
  /\ UNCHANGED <<currentUser, heartPoints, totalTasksCompleted, dailyStreak,
                 store, env, lastAward>>
\* lines 252, 310, 346, 372: if (!user) return (subtractPoints: return false)
NotAuthenticated(s, kind, result) ==
  /\ currentUser = NoUser
  /\ ops' = [Forget EXCEPT ![s] = [NewOp(kind, "done", NoUser) EXCEPT !.ret = result]]
  /\ nOps' = nOps + 1
  /\ UNCHANGED <<currentUser, mem, store, env, lastAward>>

\* ---- auth listener --------------------------------------------------------
\* onAuthStateChanged(user) with a user: loadUserStats(user.uid)
SignIn(s, u) ==
  /\ CanStart(s)
  /\ currentUser = NoUser
  /\ currentUser' = u
  /\ loadUserStats_call(s, u)
  /\ UNCHANGED app

\* a sign-out that forgets to clear the balance
SignOutKeepsBalance ==
  /\ Quiet
  /\ currentUser # NoUser
  /\ currentUser' = NoUser
  /\ totalTasksCompleted' = 0
  /\ dailyStreak' = 0
  /\ loading' = FALSE
  /\ ops' = Forget
  /\ UNCHANGED <<heartPoints, store, env, nOps, lastAward>>
  /\ UNCHANGED app
\* onAuthStateChanged(null)
SignOut ==
  /\ Quiet
  /\ currentUser # NoUser
  /\ currentUser' = NoUser
  /\ heartPoints' = 0
  /\ totalTasksCompleted' = 0
  /\ dailyStreak' = 0
  /\ loading' = FALSE
  /\ ops' = Forget
  /\ UNCHANGED <<store, env, nOps, lastAward>>
  /\ UNCHANGED app

\* ---- refreshPoints --------------------------------------------------------
refreshPoints_begin(s) ==
  IF currentUser = NoUser
  THEN NotAuthenticated(s, "refresh", "void")
  ELSE loadUserStats_call(s, currentUser) /\ UNCHANGED currentUser

refreshPoints(s) ==
  /\ CanStart(s)
  /\ refreshPoints_begin(s)
  /\ UNCHANGED app

\* ---- addPoints ------------------------------------------------------------
\* a functional update, computed from the balance in memory when it is applied
ApplyPointsToCurrent(op, pointsToAdd) ==
  [op EXCEPT !.pc = "a_updateDoc", !.pointsToAdd = pointsToAdd,
             !.newPoints = Max(0, heartPoints + pointsToAdd)]
\* lines 282-284: const newPoints = Math.max(0, heartPoints + pointsToAdd);
\* setHeartPoints(newPoints); then the balance write is awaited
ApplyPoints(op, pointsToAdd) ==
  [op EXCEPT !.pc = "a_updateDoc", !.pointsToAdd = pointsToAdd,
             !.newPoints = Max(0, op.c_heartPoints + pointsToAdd)]

\* a comparison that never finds the stored date equal to today
IsNewDayAlways(lastDate, today) == TRUE
\* line 267: if (lastDate !== today)
IsNewDay(lastDate, today) == lastDate # today

\* lines 250-284, up to the first await
addPoints_begin(s, points, isDailyTask) ==
  /\ IF currentUser = NoUser
     THEN NotAuthenticated(s, "add", "void")
     ELSE LET op == [NewOp("add", "a_getDoc", currentUser) EXCEPT
                       !.points = points, !.isDailyTask = isDailyTask,
                       !.newStreak = dailyStreak,
                       !.today = IsoDay(now)]
          IN  /\ IF isDailyTask /\ points > 0
                 THEN /\ ops' = [Forget EXCEPT ![s] = op]
                      /\ UNCHANGED heartPoints
                 ELSE /\ ops' = [Forget EXCEPT ![s] = ApplyPoints(op, points)]
                      /\ heartPoints' = ApplyPoints(op, points).newPoints
              /\ nOps' = nOps + 1
              /\ UNCHANGED <<currentUser, totalTasksCompleted, dailyStreak,
                             loading, store, env, lastAward>>

addPoints_call(s, points, isDailyTask) ==
  /\ CanStart(s)
  /\ addPoints_begin(s, points, isDailyTask)
  /\ UNCHANGED app

\* a catch block that logs the error and leaves the optimistic balance in place
addPoints_catchNoRevert(s, op, step) ==
  /\ UNCHANGED heartPoints
  /\ ops' = [ops EXCEPT ![s] = [op EXCEPT !.pc = "done", !.ret = "void",
                                          !.failed = step]]
\* the catch block of addPoints: setHeartPoints(heartPoints)
addPoints_catch(s, op, step) ==
  /\ heartPoints' = op.c_heartPoints
  /\ ops' = [ops EXCEPT ![s] = [op EXCEPT !.pc = "done", !.ret = "void",
                                          !.failed = step]]

\* continuation after `await getDoc(userStatsRef)` of the daily-task branch
addPoints_getDoc(s, ok) ==
  LET op == ops[s]
      data == userStats[op.uid]
  IN
  /\ op.pc = "a_getDoc"
  /\ IF ~ok
     THEN /\ addPoints_catch(s, op, "getDoc")
          /\ lastAward' = Awarded(op, FALSE)
          /\ UNCHANGED dailyStreak
     ELSE IF data.exists
     THEN IF IsNewDay(data.lastDailyTaskDate, op.today)
          THEN /\ dailyStreak' = op.c_dailyStreak + 1
               /\ ops' = [ops EXCEPT ![s].pc = "a_updateStreak",
                            ![s].newStreak = op.c_dailyStreak + 1,
                            ![s].pointsToAdd =
                               calculateDailyTaskPoints(op.c_dailyStreak + 1)]
               /\ UNCHANGED heartPoints
          ELSE /\ ops' = [ops EXCEPT ![s] = ApplyPoints(op, DAILY_TASK_BASE_POINTS)]
               /\ heartPoints' = ApplyPoints(op, DAILY_TASK_BASE_POINTS).newPoints
               /\ UNCHANGED dailyStreak
     ELSE /\ ops' = [ops EXCEPT ![s] = ApplyPoints(op, op.points)]
          /\ heartPoints' = ApplyPoints(op, op.points).newPoints
          /\ UNCHANGED dailyStreak
  /\ ok => UNCHANGED lastAward
  /\ UNCHANGED <<currentUser, totalTasksCompleted, loading, store, env, nOps>>
  /\ UNCHANGED app

\* continuation after `await updateDoc(userStatsRef, {lastDailyTaskDate, dailyStreak})`
addPoints_updateStreak(s, ok) ==
  LET op == ops[s]
      written == ok /\ userStats[op.uid].exists
      op2 == [op EXCEPT !.issued = @ \cup {"dailyStreak"}]
  IN
  /\ op.pc = "a_updateStreak"
  /\ IF written
     THEN /\ userStats' = [userStats EXCEPT
                             ![op.uid].lastDailyTaskDate = op.today,
                             ![op.uid].dailyStreak = op.newStreak]
          /\ ops' = [ops EXCEPT ![s] = ApplyPoints(op2, op.pointsToAdd)]
          /\ heartPoints' = ApplyPoints(op2, op.pointsToAdd).newPoints
          /\ UNCHANGED lastAward
     ELSE /\ addPoints_catch(s, op2, "updateStreak")
          /\ lastAward' = Awarded(op, FALSE)
          /\ UNCHANGED userStats
  /\ UNCHANGED <<currentUser, totalTasksCompleted, dailyStreak, loading, users,
                 env, nOps>>
  /\ UNCHANGED app

\* continuation after `await updateDoc(userStatsRef, {heartPoints: newPoints})`
addPoints_updateDoc(s, ok) ==
  LET op == ops[s]
      written == ok /\ userStats[op.uid].exists
      op2 == [op EXCEPT !.issued = @ \cup {"heartPoints"}]
  IN
  /\ op.pc = "a_updateDoc"
  /\ IF written
     THEN /\ userStats' = [userStats EXCEPT ![op.uid].heartPoints = op.newPoints]
          /\ ops' = [ops EXCEPT ![s] = [op2 EXCEPT !.pc = "s_getDoc"]]
          /\ lastAward' = Awarded(op, TRUE)
          /\ UNCHANGED heartPoints
     ELSE /\ addPoints_catch(s, op2, "updateDoc")
          /\ lastAward' = Awarded(op, FALSE)
          /\ UNCHANGED userStats
  /\ UNCHANGED <<currentUser, totalTasksCompleted, dailyStreak, loading, users,
                 env, nOps>>
  /\ UNCHANGED app

\* ---- syncScoreToLeaderboard (awaited last by addPoints and subtractPoints) --
Returned(op) == IF op.kind = "subtract" THEN "true" ELSE "void"

\* the leaderboard given the balance of the closure instead of the new one
newScoreStale(op) == op.c_heartPoints
\* lines 293 and 328: syncScoreToLeaderboard(user.uid, newPoints)
newScore(op) == op.newPoints

\* a score that is written only while the profile has none yet
ShouldSyncOnce(userDoc) == userDoc.exists /\ userDoc.score = 0
\* line 230: if (userDoc.exists()) the score is written
ShouldSync(userDoc) == userDoc.exists

\* a leaderboard failure that reaches the caller's catch block
syncScoreToLeaderboard_rethrow(s, op, step) ==
  /\ ops' = [ops EXCEPT ![s] = [op EXCEPT !.pc = "done",
                 !.ret = IF op.kind = "subtract" THEN "false" ELSE "void",
                 !.failed = step]]
  /\ heartPoints' = op.c_heartPoints
\* the catch block of syncScoreToLeaderboard (and its else branch): the error
\* is logged, the function returns normally and so does its caller
syncScoreToLeaderboard_catch(s, op, step) ==
  /\ ops' = [ops EXCEPT ![s] = [op EXCEPT !.pc = "done", !.ret = Returned(op),
                                          !.failed = step]]
  /\ UNCHANGED heartPoints

\* continuation after `await getDoc(userRef)`
syncScoreToLeaderboard_getDoc(s, ok) ==
  LET op == ops[s] IN
  /\ op.pc = "s_getDoc"
  /\ IF ~ok
     THEN syncScoreToLeaderboard_catch(s, op, "syncGetDoc")
     ELSE IF ShouldSync(users[op.uid])
     THEN ops' = [ops EXCEPT ![s].pc = "s_updateDoc"] /\ UNCHANGED heartPoints
     ELSE syncScoreToLeaderboard_catch(s, op, "noProfile")
  /\ UNCHANGED <<currentUser, totalTasksCompleted, dailyStreak, loading, store,
                 env, nOps, lastAward>>
  /\ UNCHANGED app

\* continuation after `await updateDoc(userRef, {score: newScore})`
syncScoreToLeaderboard_updateDoc(s, ok) ==
  LET op == ops[s]
      written == ok /\ users[op.uid].exists
      op2 == [op EXCEPT !.issued = @ \cup {"score"}]
  IN
  /\ op.pc = "s_updateDoc"
  /\ IF written
     THEN /\ users' = [users EXCEPT ![op.uid].score = newScore(op)]
          /\ ops' = [ops EXCEPT ![s] = [op2 EXCEPT !.pc = "done",
                                                  !.ret = Returned(op)]]
          /\ UNCHANGED heartPoints
     ELSE /\ syncScoreToLeaderboard_catch(s, op2, "syncUpdateDoc")
          /\ UNCHANGED users
  /\ UNCHANGED <<currentUser, totalTasksCompleted, dailyStreak, loading,
                 userStats, env, nOps, lastAward>>
  /\ UNCHANGED app

\* ---- subtractPoints -------------------------------------------------------
\* the balance check with its operands exchanged
InsufficientPointsSwapped(balance, points) == points < balance
\* line 312: if (heartPoints < points) return false
InsufficientPoints(balance, points) == balance < points

\* lines 308-318, up to the first await
subtractPoints_begin(s, points) ==
  /\ IF currentUser = NoUser
     THEN NotAuthenticated(s, "subtract", "false")
     ELSE LET op == [NewOp("subtract", "b_updateDoc", currentUser) EXCEPT
                       !.points = points,
                       !.newPoints = heartPoints - points]
          IN  /\ IF InsufficientPoints(heartPoints, points)
                 THEN /\ ops' = [Forget EXCEPT ![s] =
                                   [op EXCEPT !.pc = "done", !.ret = "false",
                                              !.failed = "refused"]]
                      /\ UNCHANGED heartPoints
                 ELSE /\ ops' = [Forget EXCEPT ![s] = op]
                      /\ heartPoints' = op.newPoints
              /\ nOps' = nOps + 1
              /\ UNCHANGED <<currentUser, totalTasksCompleted, dailyStreak,
                             loading, store, env, lastAward>>

subtractPoints_call(s, points) ==
  /\ CanStart(s)
  /\ subtractPoints_begin(s, points)
  /\ UNCHANGED app

\* a catch block that leaves the optimistic balance in place
subtractPoints_catchNoRevert(s, op, step) ==
  /\ UNCHANGED heartPoints
  /\ ops' = [ops EXCEPT ![s] = [op EXCEPT !.pc = "done", !.ret = "false",
                                          !.failed = step]]
\* lines 329-335: catch { setHeartPoints(heartPoints); return false; }
subtractPoints_catch(s, op, step) ==
  /\ heartPoints' = op.c_heartPoints
  /\ ops' = [ops EXCEPT ![s] = [op EXCEPT !.pc = "done", !.ret = "false",
                                          !.failed = step]]

\* continuation after `await updateDoc(userStatsRef, {heartPoints: newPoints})`
subtractPoints_updateDoc(s, ok) ==
  LET op == ops[s]
      written == ok /\ userStats[op.uid].exists
      op2 == [op EXCEPT !.issued = @ \cup {"heartPoints"}]
  IN
  /\ op.pc = "b_updateDoc"
  /\ IF written
     THEN /\ userStats' = [userStats EXCEPT ![op.uid].heartPoints = op.newPoints]
          /\ ops' = [ops EXCEPT ![s] = [op2 EXCEPT !.pc = "s_getDoc"]]
          /\ UNCHANGED heartPoints
     ELSE /\ subtractPoints_catch(s, op2, "updateDoc")
          /\ UNCHANGED userStats
  /\ UNCHANGED <<currentUser, totalTasksCompleted, dailyStreak, loading, users,
                 env, nOps, lastAward>>
  /\ UNCHANGED app

\* ---- incrementTasksCompleted ---------------------------------------------
\* lines 344-350, up to the first await
incrementTasksCompleted_begin(s) ==
  /\ IF currentUser = NoUser
     THEN NotAuthenticated(s, "increment", "void")
     ELSE /\ totalTasksCompleted' = totalTasksCompleted + 1
          /\ ops' = [Forget EXCEPT ![s] = NewOp("increment", "i_updateDoc", currentUser)]
          /\ nOps' = nOps + 1
          /\ UNCHANGED <<currentUser, heartPoints, dailyStreak, loading, store,
                         env, lastAward>>

incrementTasksCompleted_call(s) ==
  /\ CanStart(s)
  /\ incrementTasksCompleted_begin(s)
  /\ UNCHANGED app

\* continuation after `await updateDoc(userStatsRef, {totalTasksCompleted: newTotal})`
incrementTasksCompleted_updateDoc(s, ok) ==
  LET op == ops[s]
      written == ok /\ userStats[op.uid].exists
      op2 == [op EXCEPT !.pc = "done", !.ret = "void",
                        !.issued = @ \cup {"totalTasksCompleted"}]
  IN
  /\ op.pc = "i_updateDoc"
  /\ IF written
     THEN /\ userStats' = [userStats EXCEPT
                             ![op.uid].totalTasksCompleted = op.c_totalTasksCompleted + 1]
          /\ ops' = [ops EXCEPT ![s] = op2]
          /\ UNCHANGED totalTasksCompleted
     ELSE /\ totalTasksCompleted' = op.c_totalTasksCompleted
          /\ ops' = [ops EXCEPT ![s] = [op2 EXCEPT !.failed = "updateDoc"]]
          /\ UNCHANGED userStats
  /\ UNCHANGED <<currentUser, heartPoints, dailyStreak, loading, users, env, nOps, lastAward>>
  /\ UNCHANGED app

\* ---- Settings screen: Clear All Data --------------------------------------
\* part_006 lines 178-222: the user's task documents are deleted one after
\* the other, then the profile is written with score: 0; the first store call
\* that rejects ends the handler in its catch block, with the documents
\* deleted so far gone (deleted = the tasks whose deleteDoc resolved)
handleClearAllData(ok) ==
  /\ Quiet /\ nOps < MaxOps
  /\ nOps' = nOps + 1
  /\ currentUser # NoUser
  /\ LET mine == {t \in TaskIds : tasks[t].exists /\ tasks[t].userId = currentUser}
         cleared == ok /\ users[currentUser].exists
     IN  /\ \E deleted \in SUBSET mine :
              /\ cleared => deleted = mine
              /\ tasks' = [t \in TaskIds |-> IF t \in deleted THEN NoTask ELSE tasks[t]]
         /\ users' = IF cleared THEN [users EXCEPT ![currentUser].score = 0]
                     ELSE users
         /\ ops' = [Forget EXCEPT ![1] =
                      [NewOp("clear", "done", currentUser) EXCEPT
                         !.ret = "void",
                         !.failed = IF cleared THEN "none" ELSE "clear"]]
  /\ UNCHANGED <<currentUser, mem, userStats, env, lastAward>>
  /\ UNCHANGED <<shownTasks, scan, toggle, shop>>

\* ---- device clock ---------------------------------------------------------
Tick ==
  /\ Quiet
  /\ now + TickHours < MaxDays * HoursPerDay
  /\ now' = now + TickHours
  /\ ops' = Forget
  /\ UNCHANGED <<currentUser, mem, store, tz, dst, nOps, lastAward>>
  /\ UNCHANGED app

\* ---- specification --------------------------------------------------------
Next ==
  \/ \E s \in Slots, u \in Users : SignIn(s, u)
  \/ SignOut
  \/ \E s \in Slots : refreshPoints(s)
  \/ \E s \in Slots, ok \in BOOLEAN : loadUserStats_getDoc(s, ok)
  \/ \E s \in Slots, ok \in BOOLEAN : loadUserStats_resetStreak(s, ok)
  \/ \E s \in Slots, ok \in BOOLEAN : loadUserStats_setDoc(s, ok)
  \/ \E s \in Slots, p \in PointArgs, d \in BOOLEAN : addPoints_call(s, p, d)
  \/ \E s \in Slots, ok \in BOOLEAN : addPoints_getDoc(s, ok)
  \/ \E s \in Slots, ok \in BOOLEAN : addPoints_updateStreak(s, ok)
  \/ \E s \in Slots, ok \in BOOLEAN : addPoints_updateDoc(s, ok)
  \/ \E s \in Slots, p \in PriceArgs : subtractPoints_call(s, p)
  \/ \E s \in Slots, ok \in BOOLEAN : subtractPoints_updateDoc(s, ok)
  \/ \E s \in Slots, ok \in BOOLEAN : syncScoreToLeaderboard_getDoc(s, ok)
  \/ \E s \in Slots, ok \in BOOLEAN : syncScoreToLeaderboard_updateDoc(s, ok)
  \/ \E s \in Slots : incrementTasksCompleted_call(s)
  \/ \E s \in Slots, ok \in BOOLEAN : incrementTasksCompleted_updateDoc(s, ok)
  \/ \E ok \in BOOLEAN : handleClearAllData(ok)
  \/ Tick

Spec == Init /\ [][Next]_vars

\* ---- a device whose clock can be set back ---------------------------------
\* new Date() reads the device clock, which its owner can set to an earlier time
ClockBack ==
  /\ Quiet
  /\ now - TickHours >= 0
  /\ now' = now - TickHours
  /\ ops' = Forget
  /\ UNCHANGED <<currentUser, mem, store, tz, dst, nOps, lastAward>>
  /\ UNCHANGED app

NextSkew == Next \/ ClockBack

SpecSkew == Init /\ [][NextSkew]_vars

\* ---- Home / Tasks screen: checkAndResetTasks --------------------------------
\* Date.prototype.toDateString(): the local calendar date of an instant
toDateString(t) == (t + TzOffset(t)) \div HoursPerDay

\* a daily task reset once 24 hours have passed
shouldResetAfterADay(task, t) ==
  /\ task.completed /\ task.lastCompletedDate # NoDate
  /\ \/ /\ task.repeatType = "DAILY"
        /\ (t - task.lastCompletedDate) \div HoursPerDay >= 1
     \/ /\ task.repeatType = "WEEKLY"
        /\ (t - task.lastCompletedDate) \div HoursPerDay >= 7
\* part_008 lines 104-119: shouldReset for one task of the query snapshot
shouldReset(task, t) ==
  /\ task.completed /\ task.lastCompletedDate # NoDate
  /\ \/ /\ task.repeatType = "DAILY"
        /\ toDateString(task.lastCompletedDate) # toDateString(t)
     \/ /\ task.repeatType = "WEEKLY"
        /\ (t - task.lastCompletedDate) \div HoursPerDay >= 7

\* query(tasksRef, where('userId', '==', uid)): the user's task documents
TasksOf(uid) ==
  [t \in TaskIds |-> IF tasks[t].exists /\ tasks[t].userId = uid
                     THEN tasks[t] ELSE NoTask]

\* loadedTasks of loadTasks, as the list shows it
Shown(found) ==
  [t \in TaskIds |-> IF ~found[t].exists THEN "none"
                     ELSE IF found[t].completed THEN "completed"
                     ELSE "incomplete"]

\* the ledger is not called while a screen call uses it
LedgerIdle == Quiet /\ toggle.pc \in {"idle", "done"}

checkAndResetTasks_call ==
  /\ scan.pc \in {"idle", "done"}
  /\ LedgerIdle
  /\ scan.n < MaxScans
  /\ scan' = IF currentUser = NoUser
             THEN [NewScan EXCEPT !.pc = "done", !.n = scan.n + 1,
                                   !.pending = scan.pending]
             ELSE [NewScan EXCEPT !.pc = "c_getDocs", !.uid = currentUser,
                                   !.n = scan.n + 1, !.pending = scan.pending]
  /\ UNCHANGED <<currentUser, mem, store, env, ops, nOps, lastAward, tasks,
                 shownTasks, toggle, shop>>

\* continuation after `await getDocs(q)`: the forEach starts one async
\* callback per document, each of which runs up to its `await updateDoc`;
\* none of them is awaited, and loadTasks() is called at once
checkAndResetTasks_getDocs(ok) ==
  /\ scan.pc = "c_getDocs"
  /\ IF ~ok
     THEN scan' = [scan EXCEPT !.pc = "done", !.failed = "getDocs"]
     ELSE LET found == TasksOf(scan.uid)
              decided == {t \in TaskIds : shouldReset(found[t], now)}
          IN  scan' = [scan EXCEPT !.found = found, !.decided = decided,
                                   !.at = now,
                                   !.pending = @ \cup decided,
                                   !.pc = IF currentUser = NoUser
                                          THEN "done" ELSE "c_loadTasks"]
  /\ UNCHANGED <<currentUser, mem, store, env, ops, nOps, lastAward, tasks,
                 shownTasks, toggle, shop>>

\* one of the reset writes resolves or rejects (a rejection is unhandled)
checkAndResetTasks_updateDoc(t, ok) ==
  /\ t \in scan.pending
  /\ scan' = [scan EXCEPT !.pending = @ \ {t}]
  /\ IF ok /\ tasks[t].exists
     THEN tasks' = [tasks EXCEPT ![t].completed = FALSE,
                                 ![t].lastCompletedDate = NoDate]
     ELSE UNCHANGED tasks
  /\ UNCHANGED <<currentUser, mem, store, env, ops, nOps, lastAward,
                 shownTasks, toggle, shop>>

\* loadTasks() called by the screen's focus effect (part_008 lines 141-149)
loadTasks_call ==
  /\ scan.pc \in {"idle", "done"}
  /\ LedgerIdle
  /\ scan.n < MaxScans
  /\ scan' = IF currentUser = NoUser
             THEN [NewScan EXCEPT !.pc = "done", !.n = scan.n + 1,
                                   !.pending = scan.pending]
             ELSE [NewScan EXCEPT !.pc = "c_loadTasks", !.uid = currentUser,
                                   !.n = scan.n + 1, !.pending = scan.pending]
  /\ UNCHANGED <<currentUser, mem, store, env, ops, nOps, lastAward, tasks,
                 shownTasks, toggle, shop>>

\* continuation after the `await getDocs(q)` of loadTasks, then the return
\* of loadTasks and of the checkAndResetTasks that awaited it
loadTasks_getDocs(ok) ==
  /\ scan.pc = "c_loadTasks"
  /\ IF ok
     THEN /\ shownTasks' = Shown(TasksOf(scan.uid))
          /\ scan' = [scan EXCEPT !.pc = "done"]
     ELSE /\ scan' = [scan EXCEPT !.pc = "done", !.failed = "loadTasks"]
          /\ UNCHANGED shownTasks
  /\ UNCHANGED <<currentUser, mem, store, env, ops, nOps, lastAward, tasks,
                 toggle, shop>>
\* ---- Home / Tasks screen: toggleTask ----------------------------------------
\* part_008 lines 188-196, up to `await updateDoc(taskRef, ...)`; the task
\* object is the one of the list on screen
toggleTask_call(t) ==
  /\ LedgerIdle
  /\ scan.pc \in {"idle", "done"}
  /\ toggle.n < MaxToggles
  /\ shownTasks[t] # "none"
  /\ toggle' = [NewToggle EXCEPT
                  !.pc = "t_updateDoc", !.task = t,
                  !.repeatType = tasks[t].repeatType,
                  !.newCompletedStatus = (shownTasks[t] = "incomplete"),
                  !.at = now, !.shown = shownTasks, !.n = toggle.n + 1,
                  !.pre = [heartPoints |-> heartPoints],
                  !.first = IF toggle.pc = "done" /\ toggle.newCompletedStatus
                            THEN [task |-> toggle.task,
                                  heartPoints |-> toggle.pre.heartPoints,
                                  ok |-> toggle.failed = "none" /\ toggle.ledgerOk]
                            ELSE NewToggle.first]
  /\ UNCHANGED <<currentUser, mem, store, env, ops, nOps, lastAward, tasks,
                 shownTasks, scan, shop>>

\* continuation after the task's updateDoc: lines 199-206, up to the first
\* await inside addPoints
toggleTask_updateDoc(ok) ==
  LET t == toggle.task IN
  /\ toggle.pc = "t_updateDoc"
  /\ IF ok /\ tasks[t].exists
     THEN /\ tasks' = [tasks EXCEPT
                         ![t].completed = toggle.newCompletedStatus,
                         ![t].lastCompletedDate =
                            IF toggle.newCompletedStatus THEN toggle.at ELSE NoDate]
          /\ IF toggle.newCompletedStatus
             THEN /\ addPoints_begin(1, POINTS_PER_TASK, toggle.repeatType = "DAILY")
                  /\ toggle' = [toggle EXCEPT !.pc = "t_addPoints"]
             ELSE /\ addPoints_begin(1, -POINTS_PER_TASK, FALSE)
                  /\ toggle' = [toggle EXCEPT !.pc = "t_removePoints"]
     ELSE /\ toggle' = [toggle EXCEPT !.pc = "done", !.failed = "updateDoc"]
          /\ UNCHANGED <<currentUser, mem, store, env, ops, nOps, lastAward, tasks>>
  /\ UNCHANGED <<shownTasks, scan, shop>>

\* continuation after `await addPoints(...)`: await incrementTasksCompleted()
toggleTask_addPoints ==
  /\ toggle.pc = "t_addPoints"
  /\ ops[1].pc = "done"
  /\ incrementTasksCompleted_begin(1)
  /\ toggle' = [toggle EXCEPT !.pc = "t_increment",
                              !.ledgerOk = ops[1].failed = "none"]
  /\ UNCHANGED <<tasks, shownTasks, scan, shop>>

\* continuation after the last ledger call: setTasks(tasks.map(...)) on the
\* list the handler was created with
toggleTask_setTasks ==
  /\ toggle.pc \in {"t_increment", "t_removePoints"}
  /\ ops[1].pc = "done"
  /\ shownTasks' = [toggle.shown EXCEPT ![toggle.task] =
                      IF toggle.newCompletedStatus THEN "completed"
                      ELSE "incomplete"]
  /\ toggle' = [toggle EXCEPT !.pc = "done",
                              !.ledgerOk = @ /\ ops[1].failed = "none"]
  /\ UNCHANGED <<currentUser, mem, store, env, ops, nOps, lastAward, tasks,
                 scan, shop>>

\* ---- the Home / Tasks screen with the ledger it calls -----------------------
\* tasks left by earlier sessions (instants before day 0 are negative)
EarlierTasks ==
  {[t \in TaskIds |-> NoTask],
   (1 :> [exists |-> TRUE, userId |-> "u1", repeatType |-> "DAILY",
          completed |-> TRUE, lastCompletedDate |-> 0])
     @@ (2 :> [exists |-> TRUE, userId |-> "u1", repeatType |-> "WEEKLY",
               completed |-> TRUE, lastCompletedDate |-> -6 * HoursPerDay]),
   (1 :> [exists |-> TRUE, userId |-> "u1", repeatType |-> "CUSTOM",
          completed |-> TRUE, lastCompletedDate |-> -6 * HoursPerDay])
     @@ (2 :> [exists |-> TRUE, userId |-> "u1", repeatType |-> "DAILY",
               completed |-> FALSE, lastCompletedDate |-> NoDate]),
   (1 :> [exists |-> TRUE, userId |-> "u2", repeatType |-> "DAILY",
          completed |-> TRUE, lastCompletedDate |-> -TickHours])
     @@ (2 :> [exists |-> TRUE, userId |-> "u1", repeatType |-> "WEEKLY",
               completed |-> FALSE, lastCompletedDate |-> NoDate])}

InitTasks ==
  /\ InitLedger
  /\ InitShop
  /\ tasks \in EarlierTasks
  /\ shownTasks = [t \in TaskIds |-> "none"]
  /\ scan = IdleScan
  /\ toggle = IdleToggle

NextTasks ==
  \/ \E s \in Slots, u \in Users : SignIn(s, u)
  \/ \E s \in Slots, ok \in BOOLEAN : loadUserStats_getDoc(s, ok)
  \/ \E s \in Slots, ok \in BOOLEAN : loadUserStats_resetStreak(s, ok)
  \/ \E s \in Slots, ok \in BOOLEAN : loadUserStats_setDoc(s, ok)
  \/ loadTasks_call
  \/ \E ok \in BOOLEAN : loadTasks_getDocs(ok)
  \/ \E t \in TaskIds : toggleTask_call(t)
  \/ \E ok \in BOOLEAN : toggleTask_updateDoc(ok)
  \/ toggleTask_addPoints
  \/ toggleTask_setTasks
  \/ \E s \in Slots, ok \in BOOLEAN : addPoints_getDoc(s, ok)
  \/ \E s \in Slots, ok \in BOOLEAN : addPoints_updateStreak(s, ok)
  \/ \E s \in Slots, ok \in BOOLEAN : addPoints_updateDoc(s, ok)
  \/ \E s \in Slots, ok \in BOOLEAN : syncScoreToLeaderboard_getDoc(s, ok)
  \/ \E s \in Slots, ok \in BOOLEAN : syncScoreToLeaderboard_updateDoc(s, ok)
  \/ \E s \in Slots, ok \in BOOLEAN : incrementTasksCompleted_updateDoc(s, ok)
  \/ Tick

SpecTasks == InitTasks /\ [][NextTasks]_vars

\* ---- the task list of the Home / Tasks screen and its reset scan -----------
NextScan ==
  \/ \E s \in Slots, u \in Users : SignIn(s, u)
  \/ \E s \in Slots, ok \in BOOLEAN : loadUserStats_getDoc(s, ok)
  \/ \E s \in Slots, ok \in BOOLEAN : loadUserStats_resetStreak(s, ok)
  \/ \E s \in Slots, ok \in BOOLEAN : loadUserStats_setDoc(s, ok)
  \/ loadTasks_call
  \/ checkAndResetTasks_call
  \/ \E ok \in BOOLEAN : checkAndResetTasks_getDocs(ok)
  \/ \E t \in TaskIds, ok \in BOOLEAN : checkAndResetTasks_updateDoc(t, ok)
  \/ \E ok \in BOOLEAN : loadTasks_getDocs(ok)
  \/ Tick

SpecScan == InitTasks /\ [][NextScan]_vars

\* ---- Shop screen ------------------------------------------------------------
\* three of SHOP_ITEMS: a pet item, a power-up with a duration and a boost
\* (duration 0: the item has no duration)
SHOP_ITEMS ==
  {[id |-> "pet_bow", price |-> 80, category |-> "pet", duration |-> 0],
   [id |-> "streak_freeze", price |-> 150, category |-> "powerup", duration |-> 24],
   [id |-> "energy_drink", price |-> 50, category |-> "boost", duration |-> 0]}

\* inventory.ownedItems.includes(id)
Includes(items, id) == \E i \in 1..Len(items) : items[i] = id

\* data.activeBoosts.filter(boost => new Date(boost.expiresAt) > new Date())
Unexpired(boosts, t) ==
  LET Live(b) == b.expiresAt > t IN SelectSeq(boosts, Live)

\* the screen is mounted: useState's initial inventory, then loadInventory()
\* up to its `await getDoc(inventoryRef)`
loadInventory_call ==
  /\ purchase.pc \in {"idle", "done"}
  /\ LedgerIdle
  /\ purchase.n < MaxVisits
  /\ inventory' = [ownedItems |-> <<>>, activeBoosts |-> <<>>]
  /\ purchase' = [NewPurchase EXCEPT
                    !.kind = "loadInventory", !.n = purchase.n + 1,
                    !.uid = currentUser,
                    !.pc = IF currentUser = NoUser THEN "done" ELSE "v_getDoc"]
  /\ UNCHANGED <<currentUser, mem, store, env, ops, nOps, lastAward, home,
                 userInventory>>

\* continuation after `await getDoc(inventoryRef)`
loadInventory_getDoc(ok) ==
  LET data == userInventory[purchase.uid]
      activeBoosts == Unexpired(data.activeBoosts, now)
  IN
  /\ purchase.pc = "v_getDoc"
  /\ IF ~ok
     THEN /\ purchase' = [purchase EXCEPT !.pc = "done", !.failed = "getDoc"]
          /\ UNCHANGED inventory
     ELSE IF data.exists
     THEN /\ inventory' = [ownedItems |-> data.ownedItems,
                           activeBoosts |-> activeBoosts]
          /\ purchase' = [purchase EXCEPT
                            !.c_inventory = inventory',
                            !.pc = IF Len(activeBoosts) # Len(data.activeBoosts)
                                   THEN "v_updateDoc" ELSE "done"]
     ELSE /\ purchase' = [purchase EXCEPT !.pc = "v_setDoc"]
          /\ UNCHANGED inventory
  /\ UNCHANGED <<currentUser, mem, store, env, ops, nOps, lastAward, home,
                 userInventory>>

\* continuation after `await updateDoc(inventoryRef, { activeBoosts })`
loadInventory_updateDoc(ok) ==
  LET u == purchase.uid IN
  /\ purchase.pc = "v_updateDoc"
  /\ IF ok /\ userInventory[u].exists
     THEN /\ userInventory' = [userInventory EXCEPT
                                 ![u].activeBoosts = purchase.c_inventory.activeBoosts]
          /\ purchase' = [purchase EXCEPT !.pc = "done"]
     ELSE /\ purchase' = [purchase EXCEPT !.pc = "done", !.failed = "updateDoc"]
          /\ UNCHANGED userInventory
  /\ UNCHANGED <<currentUser, mem, store, env, ops, nOps, lastAward, home,
                 inventory>>

\* continuation after `await setDoc(inventoryRef, initialInventory)`
loadInventory_setDoc(ok) ==
  LET u == purchase.uid IN
  /\ purchase.pc = "v_setDoc"
  /\ IF ok
     THEN /\ userInventory' = [userInventory EXCEPT
                                 ![u] = [exists |-> TRUE, ownedItems |-> <<>>,
                                         activeBoosts |-> <<>>]]
          /\ purchase' = [purchase EXCEPT !.pc = "done"]
     ELSE /\ purchase' = [purchase EXCEPT !.pc = "done", !.failed = "setDoc"]
          /\ UNCHANGED userInventory
  /\ UNCHANGED <<currentUser, mem, store, env, ops, nOps, lastAward, home,
                 inventory>>

\* part_007 lines 445-465: the three early returns, then subtractPoints up to
\* its first await
handlePurchase_call(item) ==
  LET returns(why) ==
        /\ purchase' = [NewPurchase EXCEPT
                          !.kind = "handlePurchase", !.pc = "done",
                          !.uid = currentUser, !.item = item,
                          !.n = purchase.n, !.failed = why,
                          !.pre = IF currentUser = NoUser THEN NewPurchase.pre
                                  ELSE [stats |-> userStats[currentUser],
                                        inventory |-> userInventory[currentUser]]]
        /\ UNCHANGED <<currentUser, mem, store, env, ops, nOps, lastAward>>
  IN
  /\ purchase.pc \in {"idle", "done"}
  /\ purchase.n > 0
  /\ LedgerIdle
  /\ nOps < MaxOps
  /\ IF currentUser = NoUser THEN returns("noUser")
     ELSE IF heartPoints < item.price THEN returns("insufficient")
     ELSE IF /\ item.category \notin {"boost", "powerup"}
             /\ Includes(inventory.ownedItems, item.id) THEN returns("owned")
     ELSE /\ subtractPoints_begin(1, item.price)
          /\ purchase' = [NewPurchase EXCEPT
                            !.kind = "handlePurchase", !.pc = "p_subtractPoints",
                            !.uid = currentUser, !.item = item,
                            !.n = purchase.n, !.c_inventory = inventory,
                            !.pre = [stats |-> userStats[currentUser],
                                     inventory |-> userInventory[currentUser]]]
  /\ UNCHANGED <<home, userInventory, inventory>>

\* continuation after `await subtractPoints(item.price)`, up to the
\* `await updateDoc(inventoryRef, ...)`
handlePurchase_subtractPoints ==
  /\ purchase.pc = "p_subtractPoints"
  /\ ops[1].pc = "done"
  /\ purchase' = IF ops[1].ret = "true"
                 THEN [purchase EXCEPT !.pc = "p_updateDoc", !.at = now]
                 ELSE [purchase EXCEPT !.pc = "done", !.failed = "subtractPoints"]
  /\ UNCHANGED <<currentUser, mem, store, env, ops, nOps, lastAward, home,
                 userInventory, inventory>>

\* part_007 lines 509-512: the catch block logs the error and shows an alert
handlePurchase_catch ==
  /\ purchase' = [purchase EXCEPT !.pc = "done", !.failed = "updateDoc"]
  /\ UNCHANGED <<currentUser, mem, store, env, ops, nOps, lastAward,
                 userInventory, inventory>>

\* continuation after the inventory's updateDoc: setInventory, then
\* refreshPoints up to its first await
handlePurchase_updateDoc(ok) ==
  LET u == purchase.uid
      item == purchase.item
      newBoost == [itemId |-> item.id, expiresAt |-> purchase.at + item.duration]
      updatedBoosts == Append(purchase.c_inventory.activeBoosts, newBoost)
      updatedItems == Append(purchase.c_inventory.ownedItems, item.id)
  IN
  /\ purchase.pc = "p_updateDoc"
  /\ IF ok /\ userInventory[u].exists
     THEN /\ IF item.category = "powerup" /\ item.duration # 0
             THEN /\ userInventory' = [userInventory EXCEPT
                                         ![u].activeBoosts = updatedBoosts]
                  /\ inventory' = [inventory EXCEPT !.activeBoosts = updatedBoosts]
             ELSE /\ userInventory' = [userInventory EXCEPT
                                         ![u].ownedItems = updatedItems]
                  /\ inventory' = [inventory EXCEPT !.ownedItems = updatedItems]
          /\ refreshPoints_begin(1)
          /\ purchase' = [purchase EXCEPT !.pc = "p_refreshPoints"]
     ELSE handlePurchase_catch
  /\ UNCHANGED home

\* continuation after `await refreshPoints()`: the success alert
handlePurchase_refreshPoints ==
  /\ purchase.pc = "p_refreshPoints"
  /\ ops[1].pc = "done"
  /\ purchase' = [purchase EXCEPT !.pc = "done"]
  /\ UNCHANGED <<currentUser, mem, store, env, ops, nOps, lastAward, home,
                 userInventory, inventory>>

\* the record and the profile of a user who has earlier completed ten tasks
\* that are not daily tasks
SavedUp ==
  [stats |-> [exists |-> TRUE, heartPoints |-> 10 * POINTS_PER_TASK,
              totalTasksCompleted |-> 10, dailyStreak |-> 0,
              lastDailyTaskDate |-> NoDate],
   profile |-> [exists |-> TRUE, score |-> 10 * POINTS_PER_TASK]]

InitShopping ==
  /\ currentUser = NoUser
  /\ heartPoints = 0
  /\ totalTasksCompleted = 0
  /\ dailyStreak = 0
  /\ loading = TRUE
  /\ userStats = [u \in Users |-> SavedUp.stats]
  /\ users = [u \in Users |-> SavedUp.profile]
  /\ lastAward = [u \in Users |-> [day |-> NoDate, ok |-> TRUE]]
  /\ now = 0
  /\ \E z \in Zones : tz = z.tz /\ dst = z.dst
  /\ ops = [s \in Slots |-> IdleOp]
  /\ nOps = 0
  /\ InitHome
  /\ InitShop

NextShop ==
  \/ \E s \in Slots, u \in Users : SignIn(s, u)
  \/ \E s \in Slots, ok \in BOOLEAN : loadUserStats_getDoc(s, ok)
  \/ loadInventory_call
  \/ \E ok \in BOOLEAN : loadInventory_getDoc(ok)
  \/ \E ok \in BOOLEAN : loadInventory_updateDoc(ok)
  \/ \E ok \in BOOLEAN : loadInventory_setDoc(ok)
  \/ \E item \in SHOP_ITEMS : handlePurchase_call(item)
  \/ handlePurchase_subtractPoints
  \/ \E ok \in BOOLEAN : handlePurchase_updateDoc(ok)
  \/ handlePurchase_refreshPoints
  \/ \E s \in Slots, ok \in BOOLEAN : subtractPoints_updateDoc(s, ok)
  \/ \E s \in Slots, ok \in BOOLEAN : syncScoreToLeaderboard_getDoc(s, ok)
  \/ \E s \in Slots, ok \in BOOLEAN : syncScoreToLeaderboard_updateDoc(s, ok)
  \/ Tick

SpecShop == InitShopping /\ [][NextShop]_vars

\* ---- calls that overlap ------------------------------------------------------
\* Nothing in the provider serialises its calls: an exported function can be
\* called, and the auth listener can fire, while an earlier call is awaiting
\* a store call (a call takes the first free slot).
CanOverlap(s) ==
  /\ ops[s].pc \in {"idle", "done"}
  /\ \A r \in Slots : r < s => ops[r].pc \notin {"idle", "done"}
  /\ nOps < MaxOps

addPoints_overlap(s, points, isDailyTask) ==
  /\ CanOverlap(s)
  /\ addPoints_begin(s, points, isDailyTask)
  /\ UNCHANGED app

subtractPoints_overlap(s, points) ==
  /\ CanOverlap(s)
  /\ subtractPoints_begin(s, points)
  /\ UNCHANGED app

incrementTasksCompleted_overlap(s) ==
  /\ CanOverlap(s)
  /\ incrementTasksCompleted_begin(s)
  /\ UNCHANGED app

\* onAuthStateChanged(null) while a call is awaiting a store call
SignOutDuring ==
  /\ \E s \in Slots : ops[s].pc \notin {"idle", "done"}
  /\ currentUser # NoUser
  /\ currentUser' = NoUser
  /\ heartPoints' = 0
  /\ totalTasksCompleted' = 0
  /\ dailyStreak' = 0
  /\ loading' = FALSE
  /\ ops' = Forget
  /\ UNCHANGED <<store, env, nOps, lastAward>>
  /\ UNCHANGED app

NextOverlap ==
  \/ \E s \in Slots, u \in Users : SignIn(s, u)
  \/ SignOutDuring
  \/ \E s \in Slots, ok \in BOOLEAN : loadUserStats_getDoc(s, ok)
  \/ \E s \in Slots, ok \in BOOLEAN : loadUserStats_setDoc(s, ok)
  \/ \E s \in Slots, d \in BOOLEAN : addPoints_overlap(s, POINTS_PER_TASK, d)
  \/ \E s \in Slots, ok \in BOOLEAN : addPoints_getDoc(s, ok)
  \/ \E s \in Slots, ok \in BOOLEAN : addPoints_updateStreak(s, ok)
  \/ \E s \in Slots, ok \in BOOLEAN : addPoints_updateDoc(s, ok)
  \/ \E s \in Slots : subtractPoints_overlap(s, POINTS_PER_TASK)
  \/ \E s \in Slots, ok \in BOOLEAN : subtractPoints_updateDoc(s, ok)
  \/ \E s \in Slots, ok \in BOOLEAN : syncScoreToLeaderboard_getDoc(s, ok)
  \/ \E s \in Slots, ok \in BOOLEAN : syncScoreToLeaderboard_updateDoc(s, ok)
  \/ \E s \in Slots : incrementTasksCompleted_overlap(s)
  \/ \E s \in Slots, ok \in BOOLEAN : incrementTasksCompleted_updateDoc(s, ok)

\* a device in one zone, and a user whose profile exists
InitOverlap ==
  /\ Init
  /\ tz = -5
  /\ \A u \in Users : users[u].exists

SpecOverlap == InitOverlap /\ [][NextOverlap]_vars

\* ---- properties ------------------------------------------------------------
\* the calls that have returned and whose record is still kept
Returns(kinds) ==
  {s \in Slots : ops[s].pc = "done" /\ ops[s].kind \in kinds /\ ops[s].uid # NoUser}

\* the call's userStats writes all succeeded (it reached the leaderboard sync)
Committed(op) == op.failed \in {"none", "syncGetDoc", "syncUpdateDoc", "noProfile"}

\* the local calendar day of an instant
LocalDay(t) == (t + TzOffset(t)) \div HoursPerDay

\* C1: after every sequence of addPoints and subtractPoints calls, whatever
\* their arguments and whichever store calls fail, the in-memory heartPoints
\* and the heartPoints of every userStats record are >= 0.
C1_NonNegative ==
  /\ heartPoints >= 0
  /\ \A u \in Users : userStats[u].heartPoints >= 0

\* an undo delta larger than the balance was applied, written and clamped
C1_Witness ==
  \E s \in Returns({"add"}) :
    /\ ops[s].c_heartPoints + ops[s].points < 0
    /\ Committed(ops[s])
    /\ userStats[ops[s].uid].heartPoints = 0

\* C2: subtractPoints(points) with points > heartPoints returns false and
\* changes nothing: in-memory heartPoints, the userStats record and the
\* leaderboard score are as before the call and no store write was issued.
C2_NoDebt ==
  \A s \in Returns({"subtract"}) :
    LET op == ops[s] IN
    op.points > op.pre.heartPoints =>
      /\ op.ret = "false"
      /\ heartPoints = op.pre.heartPoints
      /\ userStats[op.uid] = op.pre.stats
      /\ users[op.uid].score = op.pre.score
      /\ op.issued = {}

\* a price above a positive balance was refused
C2_Witness ==
  \E s \in Returns({"subtract"}) :
    /\ ops[s].points > ops[s].pre.heartPoints
    /\ ops[s].pre.heartPoints > 0
    /\ ops[s].ret = "false"

\* C3: a successful addPoints(p, true), p > 0, whose preceding daily-task
\* call succeeded on the same calendar day (the day addPoints computes)
\* credits exactly DAILY_TASK_BASE_POINTS whatever p is, and leaves dailyStreak
\* and lastDailyTaskDate as they were, in memory and in the store.
C3_SecondAwardOfDay ==
  \A s \in Returns({"add"}) :
    LET op == ops[s] IN
    (/\ op.isDailyTask /\ op.points > 0
     /\ Committed(op)
     /\ op.pre.lastAward = [day |-> op.today, ok |-> TRUE]) =>
      /\ heartPoints = op.pre.heartPoints + DAILY_TASK_BASE_POINTS
      /\ userStats[op.uid].heartPoints = heartPoints
      /\ dailyStreak = op.pre.dailyStreak
      /\ userStats[op.uid].dailyStreak = op.pre.stats.dailyStreak
      /\ userStats[op.uid].lastDailyTaskDate = op.pre.stats.lastDailyTaskDate
      /\ "dailyStreak" \notin op.issued

\* a second daily-task award of the day, called with p # 10 on a running streak
C3_Witness ==
  \E s \in Returns({"add"}) :
    /\ ops[s].isDailyTask /\ ops[s].points > DAILY_TASK_BASE_POINTS
    /\ Committed(ops[s])
    /\ ops[s].pre.lastAward = [day |-> ops[s].today, ok |-> TRUE]
    /\ ops[s].pre.dailyStreak >= 1

\* C4: with dailyStreak = N in memory and in the store and the stored
\* lastDailyTaskDate the day before today, a successful addPoints(p, true),
\* p > 0, makes dailyStreak N+1 in memory and in the store, lastDailyTaskDate
\* today, and adds exactly 10 + 2*(N+1) to heartPoints.
C4_StreakContinues ==
  \A s \in Returns({"add"}) :
    LET op == ops[s]
        N == op.pre.dailyStreak
    IN
    (/\ op.isDailyTask /\ op.points > 0
     /\ Committed(op)
     /\ op.pre.stats.exists
     /\ op.pre.stats.dailyStreak = N
     /\ op.pre.stats.lastDailyTaskDate # NoDate
     /\ op.pre.stats.lastDailyTaskDate = op.today - 1) =>
      /\ dailyStreak = N + 1
      /\ userStats[op.uid].dailyStreak = N + 1
      /\ userStats[op.uid].lastDailyTaskDate = op.today
      /\ heartPoints = op.pre.heartPoints + 10 + 2 * (N + 1)
      /\ userStats[op.uid].heartPoints = heartPoints

\* a streak of at least 1 was continued on the next day
C4_Witness ==
  \E s \in Returns({"add"}) :
    /\ ops[s].isDailyTask /\ ops[s].points > 0
    /\ Committed(ops[s])
    /\ ops[s].pre.stats.exists
    /\ ops[s].pre.dailyStreak >= 1
    /\ ops[s].pre.stats.dailyStreak = ops[s].pre.dailyStreak
    /\ ops[s].pre.stats.lastDailyTaskDate = ops[s].today - 1
    /\ ops[s].today >= 1

\* C5: a load that finds the stored lastDailyTaskDate more than one calendar
\* day before today (in the device's calendar and in the UTC calendar alike)
\* and whose store calls all succeed writes dailyStreak = 0 to the record and
\* sets the in-memory dailyStreak to 0, leaving the record's heartPoints,
\* totalTasksCompleted and lastDailyTaskDate unchanged.
C5_StreakReset ==
  \A s \in Returns({"load"}) :
    LET op == ops[s]
        lastDate == op.pre.stats.lastDailyTaskDate
    IN
    (/\ op.failed = "none"
     /\ op.pre.stats.exists
     /\ lastDate # NoDate
     /\ LocalDay(now) - LocalDay(ParseIsoDay(lastDate)) > 1
     /\ IsoDay(now) - lastDate > 1) =>
      /\ dailyStreak = 0
      /\ userStats[op.uid].dailyStreak = 0
      /\ userStats[op.uid].heartPoints = op.pre.stats.heartPoints
      /\ userStats[op.uid].totalTasksCompleted = op.pre.stats.totalTasksCompleted
      /\ userStats[op.uid].lastDailyTaskDate = lastDate

\* C6: when the balance write of addPoints(d, false) fails, the in-memory
\* heartPoints after the call is the one before it, the stored heartPoints is
\* unchanged and the leaderboard score is neither written nor changed.
C6_RevertOnFailure ==
  \A s \in Returns({"add"}) :
    LET op == ops[s] IN
    (~op.isDailyTask /\ op.failed = "updateDoc") =>
      /\ heartPoints = op.pre.heartPoints
      /\ userStats[op.uid].heartPoints = op.pre.stats.heartPoints
      /\ users[op.uid].score = op.pre.score
      /\ "score" \notin op.issued

\* the failed write would have changed a positive balance
C6_Witness ==
  \E s \in Returns({"add"}) :
    /\ ~ops[s].isDailyTask /\ ops[s].failed = "updateDoc"
    /\ ops[s].pre.heartPoints > 0
    /\ ops[s].newPoints # ops[s].pre.heartPoints

\* C7: across the ledger calls of a session, failing store calls included,
\* totalTasksCompleted never decreases: not the value stored in userStats
\* from one state to the next, nor the in-memory value from the start of a
\* call to its return.
C7_Monotonic ==
  [][/\ \A u \in Users : userStats'[u].totalTasksCompleted
                           >= userStats[u].totalTasksCompleted
     /\ \A s \in Slots :
          (ops'[s].pc = "done" /\ ops'[s].uid # NoUser) =>
            totalTasksCompleted' >= ops'[s].pre.totalTasksCompleted]_vars

\* C8: after an addPoints or subtractPoints call whose balance write and
\* leaderboard write both succeeded, the profile's score equals the stored
\* heartPoints and the in-memory heartPoints.
C8_ScoreEqualsBalance ==
  \A s \in Returns({"add", "subtract"}) :
    LET op == ops[s] IN
    (op.failed = "none" /\ "score" \in op.issued) =>
      /\ users[op.uid].score = userStats[op.uid].heartPoints
      /\ userStats[op.uid].heartPoints = heartPoints

\* a successful call that changed the balance and the score
C8_Witness ==
  \E s \in Returns({"add", "subtract"}) :
    /\ ops[s].failed = "none" /\ "score" \in ops[s].issued
    /\ users[ops[s].uid].score # ops[s].pre.score
    /\ heartPoints # ops[s].pre.heartPoints

\* C9: when, after the balance write succeeded, the profile read or the score
\* write fails or the profile does not exist, addPoints and subtractPoints
\* keep the new balance in the store and in memory, subtractPoints returns
\* true and addPoints returns normally.
C9_SyncFailureKeepsBalance ==
  \A s \in Returns({"add", "subtract"}) :
    LET op == ops[s] IN
    op.failed \in {"syncGetDoc", "syncUpdateDoc", "noProfile"} =>
      /\ heartPoints = op.newPoints
      /\ userStats[op.uid].heartPoints = op.newPoints
      /\ op.kind = "subtract" => op.ret = "true"
      /\ op.kind = "add" => op.ret = "void"

\* a purchase went through although the leaderboard could not be written
C9_Witness ==
  \E s \in Returns({"subtract"}) :
    /\ ops[s].failed \in {"syncGetDoc", "syncUpdateDoc", "noProfile"}
    /\ ops[s].points > 0
    /\ heartPoints = ops[s].pre.heartPoints - ops[s].points

\* C10: every addPoints or subtractPoints call that was accepted, wrote the
\* balance and read an existing profile issues a score write, and when that
\* write succeeds the score equals the stored heartPoints again, also if it
\* lagged the balance before the call.
C10_Repush ==
  \A s \in Returns({"add", "subtract"}) :
    LET op == ops[s] IN
    (/\ "heartPoints" \in op.issued
     /\ op.failed \notin {"updateDoc", "syncGetDoc"}
     /\ users[op.uid].exists) =>
      /\ "score" \in op.issued
      /\ op.failed = "none" => users[op.uid].score = userStats[op.uid].heartPoints

\* the score lagged the stored balance before the call and equals it after
C10_Witness ==
  \E s \in Returns({"add", "subtract"}) :
    /\ ops[s].pre.score # ops[s].pre.stats.heartPoints
    /\ ops[s].pre.stats.exists
    /\ ops[s].failed = "none" /\ "score" \in ops[s].issued
    /\ users[ops[s].uid].score = userStats[ops[s].uid].heartPoints

\* the balance write of an addPoints or subtractPoints call has succeeded
BalanceWritten(op) ==
  \/ op.pc \in {"s_getDoc", "s_updateDoc"}
  \/ op.pc = "done" /\ Committed(op) /\ "heartPoints" \in op.issued

C12_FailClosed ==
  \A s \in Returns({"add", "increment"}) :
    LET op == ops[s] IN
    (/\ op.failed \in {"updateStreak", "updateDoc"}
     /\ op.kind = "add" => (op.isDailyTask /\ op.points > 0))
      => /\ dailyStreak = op.pre.dailyStreak
         /\ heartPoints = op.pre.heartPoints
         /\ totalTasksCompleted = op.pre.totalTasksCompleted

\* C13: the stored lastDailyTaskDate only moves forward in calendar time,
\* even when the device clock reports an earlier day than the stored date,
\* and a daily-task award writes it at most once per calendar day (it never
\* writes the date the record already holds).
C13_DateMovesForward ==
  [][\A u \in Users :
       /\ (userStats[u].exists /\ userStats[u].lastDailyTaskDate # NoDate)
            => userStats'[u].lastDailyTaskDate >= userStats[u].lastDailyTaskDate
       /\ (\E s \in Slots : /\ ops[s].pc = "a_updateStreak"
                            /\ ops[s].uid = u
                            /\ userStats'[u] # userStats[u])
            => userStats'[u].lastDailyTaskDate # userStats[u].lastDailyTaskDate
    ]_vars

\* C14: across loads, daily-task awards and day advances (sessions that stay
\* open over several days without a reload included), the dailyStreak after
\* a grant never exceeds the number of consecutive calendar days, ending
\* today, on which a grant occurred: a grant made more than one calendar day
\* after the previous grant restarts the streak (reset to 0, then +1, so 1)
\* instead of taking it from N to N+1.
C14_StreakRestartsAfterGap ==
  \A s \in Returns({"add"}) :
    LET op == ops[s] IN
    (/\ op.isDailyTask /\ op.points > 0
     /\ Committed(op)
     /\ op.pre.lastAward.ok
     /\ op.pre.lastAward.day # NoDate
     /\ op.today - op.pre.lastAward.day > 1)
      => /\ dailyStreak = 1
         /\ userStats[op.uid].dailyStreak = 1

C16_NoUserNoOp ==
  [][(currentUser = NoUser /\ currentUser' = NoUser /\ nOps' # nOps)
       => /\ UNCHANGED <<heartPoints, totalTasksCompleted, dailyStreak, loading>>
          /\ UNCHANGED <<userStats, users>>
          /\ \E s \in Slots :
               /\ ops'[s].kind \in {"add", "subtract", "increment", "refresh"}
               /\ ops'[s].pc = "done"
               /\ ops'[s].issued = {}
               /\ ops'[s].failed = "none"
               /\ ops'[s].ret = IF ops'[s].kind = "subtract" THEN "false" ELSE "void"
    ]_vars

\* a purchase attempted after sign-out has returned false
C16_Witness ==
  /\ currentUser = NoUser
  /\ ~loading
  /\ \E s \in Slots : /\ ops[s].kind = "subtract"
                      /\ ops[s].pc = "done"
                      /\ ops[s].uid = NoUser
                      /\ ops[s].ret = "false"

\* C17: a load for a user with no userStats record creates the record with
\* heartPoints, totalTasksCompleted and dailyStreak 0 and no lastDailyTaskDate
\* and sets the in-memory values to 0; a load for a user whose record exists
\* never recreates or overwrites it, apart from the streak-reset write.
C17_LoadCreatesOrKeeps ==
  \A s \in Slots :
    LET op == ops[s] IN
    (op.kind = "load" /\ op.uid # NoUser) =>
      /\ (op.pc = "done" /\ op.failed = "none" /\ ~op.pre.stats.exists)
           => /\ userStats[op.uid].exists
              /\ userStats[op.uid].heartPoints = 0
              /\ userStats[op.uid].totalTasksCompleted = 0
              /\ userStats[op.uid].dailyStreak = 0
              /\ userStats[op.uid].lastDailyTaskDate = NoDate
              /\ heartPoints = 0 /\ totalTasksCompleted = 0 /\ dailyStreak = 0
      /\ op.pre.stats.exists
           => /\ "initialStats" \notin op.issued
              /\ \/ userStats[op.uid] = op.pre.stats
                 \/ /\ "dailyStreak" \in op.issued
                    /\ userStats[op.uid] = [op.pre.stats EXCEPT !.dailyStreak = 0]

\* a first sign-in has created the record
C17_Witness ==
  \E s \in Returns({"load"}) :
    /\ ops[s].failed = "none"
    /\ ~ops[s].pre.stats.exists
    /\ "initialStats" \in ops[s].issued
    /\ userStats[ops[s].uid].exists

\* C18: the sign-out event sets the in-memory heartPoints,
\* totalTasksCompleted and dailyStreak to 0 and loading to false and writes
\* nothing to the store; after a sign-in the state is re-initialised from the
\* user's record, so when a load completes with none of its store calls
\* failing the in-memory values equal the stored ones (the streak reset, if
\* any, applied to both) and loading is false.
C18_SignOutClearsSignInLoads ==
  [][/\ (currentUser # NoUser /\ currentUser' = NoUser)
          => /\ heartPoints' = 0
             /\ totalTasksCompleted' = 0
             /\ dailyStreak' = 0
             /\ loading' = FALSE
             /\ UNCHANGED <<userStats, users>>
     /\ \A s \in Slots :
          (/\ ops[s].kind = "load" /\ ops[s].pc # "done"
           /\ ops'[s].pc = "done" /\ ops'[s].failed = "none")
            => /\ heartPoints' = userStats'[ops[s].uid].heartPoints
               /\ totalTasksCompleted' = userStats'[ops[s].uid].totalTasksCompleted
               /\ dailyStreak' = userStats'[ops[s].uid].dailyStreak
               /\ loading' = FALSE
    ]_vars

\* signed out after a session on a record that holds points
C18_Witness ==
  /\ currentUser = NoUser
  /\ loading = FALSE
  /\ heartPoints = 0 /\ totalTasksCompleted = 0 /\ dailyStreak = 0
  /\ \E u \in Users : userStats[u].exists /\ userStats[u].heartPoints > 0

\* C19: subtractPoints(points) with 0 <= points <= heartPoints (points =
\* heartPoints included) whose writes succeed returns true and decreases the
\* in-memory and the stored heartPoints by exactly points; when the
\* userStats write fails it returns false, the in-memory heartPoints is back
\* at its pre-call value, and the store and the leaderboard are unchanged.
C19_SubtractExactly ==
  \A s \in Returns({"subtract"}) :
    LET op == ops[s] IN
    (0 <= op.points /\ op.points <= op.pre.heartPoints) =>
      /\ op.failed = "none"
           => /\ op.ret = "true"
              /\ heartPoints = op.pre.heartPoints - op.points
              /\ userStats[op.uid].heartPoints
                   = op.pre.stats.heartPoints - op.points
      /\ op.failed = "updateDoc"
           => /\ op.ret = "false"
              /\ heartPoints = op.pre.heartPoints
              /\ userStats[op.uid] = op.pre.stats
              /\ users[op.uid].score = op.pre.score

\* C20: a successful incrementTasksCompleted increases totalTasksCompleted by
\* exactly 1 in memory and in the store and leaves heartPoints, dailyStreak,
\* lastDailyTaskDate and the leaderboard score unchanged; addPoints and
\* subtractPoints never change totalTasksCompleted, in memory or in the
\* store.
C20_IncrementOnlyTotal ==
  /\ \A s \in Returns({"increment"}) :
       LET op == ops[s] IN
       op.failed = "none" =>
         /\ totalTasksCompleted = op.pre.totalTasksCompleted + 1
         /\ userStats[op.uid].totalTasksCompleted
              = op.pre.stats.totalTasksCompleted + 1
         /\ heartPoints = op.pre.heartPoints
         /\ dailyStreak = op.pre.dailyStreak
         /\ userStats[op.uid].heartPoints = op.pre.stats.heartPoints
         /\ userStats[op.uid].dailyStreak = op.pre.stats.dailyStreak
         /\ userStats[op.uid].lastDailyTaskDate = op.pre.stats.lastDailyTaskDate
         /\ users[op.uid].score = op.pre.score
  /\ \A s \in Slots :
       LET op == ops[s] IN
       (op.kind \in {"add", "subtract"} /\ op.uid # NoUser) =>
         /\ totalTasksCompleted = op.pre.totalTasksCompleted
         /\ userStats[op.uid].totalTasksCompleted
              = op.pre.stats.totalTasksCompleted

\* C21: the task reset scan decides to flip a task back to incomplete exactly
\* when the task is a completed task of the current user and either its
\* repeatType is DAILY and its lastCompletedDate is not on today's calendar
\* day, or its repeatType is WEEKLY and at least 7 days have elapsed since
\* its lastCompletedDate; the only change the scan makes to a task is
\* completed = false (with the date cleared) on a task it decided on, so
\* CUSTOM and incomplete tasks are never changed; and no step of the scan
\* changes heartPoints, dailyStreak or totalTasksCompleted, in memory or in
\* the store.
C21_ResetScan ==
  [][/\ (scan.pc = "c_getDocs" /\ scan'.pc # "c_getDocs"
         /\ scan'.failed = "none")
          => scan'.decided =
               {t \in TaskIds :
                  /\ tasks[t].exists
                  /\ tasks[t].userId = currentUser
                  /\ tasks[t].completed
                  /\ \/ /\ tasks[t].repeatType = "DAILY"
                        /\ LocalDay(tasks[t].lastCompletedDate) # LocalDay(now)
                     \/ /\ tasks[t].repeatType = "WEEKLY"
                        /\ now - tasks[t].lastCompletedDate >= 7 * HoursPerDay}
     /\ scan'.pending \subseteq scan.pending \cup scan'.decided
     /\ \A t \in TaskIds :
          tasks'[t] # tasks[t]
            => /\ t \in scan.pending
               /\ tasks[t].completed
               /\ tasks[t].repeatType \in {"DAILY", "WEEKLY"}
               /\ tasks'[t] = [tasks[t] EXCEPT !.completed = FALSE,
                                               !.lastCompletedDate = NoDate]
     /\ scan' # scan
          => UNCHANGED <<heartPoints, dailyStreak, totalTasksCompleted,
                         userStats, users>>
    ]_vars

\* a scan has decided on a daily and on a weekly task, and the weekly task's
\* reset write has landed
C21_Witness ==
  /\ scan.pc = "done" /\ scan.failed = "none"
  /\ \E t \in scan.decided :
       /\ scan.found[t].repeatType = "WEEKLY"
       /\ ~tasks[t].completed
  /\ \E t \in scan.decided : scan.found[t].repeatType = "DAILY"

\* C23: un-completing a task removes exactly the points that completing it
\* awarded, for every kind of task, streak and starting balance: when a task
\* is completed and then un-completed, every store call of both toggles
\* succeeding, heartPoints is back at the value it had before the completion.
C23_UndoRemovesAward ==
  (/\ toggle.pc = "done"
   /\ ~toggle.newCompletedStatus
   /\ toggle.failed = "none" /\ toggle.ledgerOk
   /\ toggle.first.ok
   /\ toggle.first.task = toggle.task)
    => heartPoints = toggle.first.heartPoints

\* C24: after Clear All Data has completed successfully the user's userStats
\* record holds heartPoints = 0, dailyStreak = 0 and totalTasksCompleted = 0
\* and the profile's score is 0 (so that the next load, which shows what the
\* record holds, shows heartPoints = 0).
C24_ClearZeroesLedger ==
  \A s \in Returns({"clear"}) :
    LET op == ops[s] IN
    op.failed = "none" =>
      /\ userStats[op.uid].heartPoints = 0
      /\ userStats[op.uid].dailyStreak = 0
      /\ userStats[op.uid].totalTasksCompleted = 0
      /\ users[op.uid].score = 0

\* C25: the first daily-task award of a day is all-or-nothing with respect to
\* the store: when one of its store calls fails (the balance write after the
\* streak/date write included) the userStats record is what it was before
\* the call, so that a retry on the same day finds the day not yet granted
\* and still credits the streak bonus.
C25_AwardAllOrNothing ==
  \A s \in Returns({"add"}) :
    LET op == ops[s] IN
    (op.isDailyTask /\ op.points > 0 /\ ~Committed(op))
      => userStats[op.uid] = op.pre.stats

\* C28: the award path (the UTC date string of addPoints) and the load path
\* (the local midnights of checkAndUpdateStreak) agree on the calendar day at
\* every clock time and in every time zone: the day a daily-task award calls
\* today is the device's calendar day, and the number of days the load path
\* counts from the stored date to today is the difference of the award
\* path's day numbers.
C28_PathsAgreeOnDay ==
  \A s \in Slots :
    LET op == ops[s]
        lastDate == userStats[op.uid].lastDailyTaskDate
    IN
    (op.kind = "add" /\ op.uid # NoUser /\ op.isDailyTask /\ op.points > 0) =>
      /\ op.pc = "a_getDoc" => op.today = LocalDay(now)
      /\ (op.pc = "a_getDoc" /\ lastDate # NoDate)
           => daysDifference(now, lastDate) = op.today - lastDate

\* C30: the reload that ends checkAndResetTasks happens only after every
\* reset write of the scan has completed, and when the scan has finished the
\* list it loaded reflects every reset: no task that the scan has reset is
\* still shown as completed.
C30_ReloadAfterResets ==
  /\ scan.pc = "c_loadTasks" => scan.decided \cap scan.pending = {}
  /\ (scan.pc = "done" /\ scan.failed = "none")
       => \A t \in scan.decided :
            ~tasks[t].completed => shownTasks[t] # "completed"

\* the change of the balance a call asks for
Delta(op) == IF op.kind = "subtract" THEN -op.points ELSE op.pointsToAdd

\* the pairs of balance-mutating calls that overlapped, captured the same
\* in-memory balance, have both returned and have both written their balance
OverlappedPairs ==
  {p \in Slots \X Slots :
     /\ p[1] # p[2]
     /\ \A s \in {p[1], p[2]} :
          /\ ops[s].pc = "done"
          /\ ops[s].kind \in {"add", "subtract"}
          /\ ops[s].uid = currentUser /\ currentUser # NoUser
          /\ Committed(ops[s]) /\ "heartPoints" \in ops[s].issued
     /\ ops[p[1]].c_heartPoints = ops[p[2]].c_heartPoints}

\* C22: nothing serialises the balance-mutating calls, and when two of them
\* overlap so that the second starts before the first's result is in memory
\* (both compute from the same captured balance) an update is lost: once both
\* have written, the stored and the in-memory heartPoints are each the
\* captured balance changed by the delta of one of the two calls only.
C22_LostUpdate ==
  \A p \in OverlappedPairs :
    LET one == Max(0, ops[p[1]].c_heartPoints + Delta(ops[p[1]]))
        other == Max(0, ops[p[2]].c_heartPoints + Delta(ops[p[2]]))
    IN  /\ heartPoints \in {one, other}
        /\ userStats[currentUser].heartPoints \in {one, other}

\* two overlapping awards, both made with the stored balance in memory and no
\* load in flight, have both been written and one of them is missing from
\* the balance, in memory and in the store
C22_Witness ==
  \E p \in OverlappedPairs :
    /\ Delta(ops[p[1]]) > 0 /\ Delta(ops[p[2]]) > 0
    /\ \A s \in {p[1], p[2]} :
         /\ ~ops[s].duringLoad
         /\ ops[s].pre.stats.heartPoints = ops[s].c_heartPoints
    /\ heartPoints = ops[p[1]].c_heartPoints + Delta(ops[p[2]])
    /\ userStats[currentUser].heartPoints = heartPoints

\* C26: a balance-mutating call made while a load is in flight never
\* overwrites the stored heartPoints with a value computed from the balance
\* that was in memory before the load delivered the stored one: whenever such
\* a call has written the balance, the balance it computed from was the
\* stored balance.
C26_NoWriteFromUnloadedBalance ==
  \A s \in Slots :
    LET op == ops[s] IN
    (/\ op.kind \in {"add", "subtract"} /\ op.uid # NoUser
     /\ op.duringLoad
     /\ BalanceWritten(op))
      => op.c_heartPoints = op.pre.stats.heartPoints

\* C27: from a sign-out to the next sign-in the in-memory heartPoints,
\* totalTasksCompleted and dailyStreak are 0, also when a load, award,
\* subtraction or increment that started before the sign-out completes after
\* it (a load made for a user who is no longer signed in never populates the
\* state).
C27_SignedOutStaysZero ==
  currentUser = NoUser
    => heartPoints = 0 /\ totalTasksCompleted = 0 /\ dailyStreak = 0

\* C29: a shop purchase is atomic across the balance and the inventory: when
\* handlePurchase has returned, either the price has been taken from the
\* stored heartPoints and the item is in the stored inventory, or the stored
\* heartPoints and the stored inventory are both as they were before the
\* purchase; the user is never charged without receiving the item.
C29_PurchaseAtomic ==
  LET u == purchase.uid
      item == purchase.item
      granted ==
        IF item.category = "powerup" /\ item.duration # 0
        THEN /\ Len(userInventory[u].activeBoosts)
                  = Len(purchase.pre.inventory.activeBoosts) + 1
             /\ \E i \in 1..Len(userInventory[u].activeBoosts) :
                  userInventory[u].activeBoosts[i].itemId = item.id
        ELSE userInventory[u].ownedItems
               = Append(purchase.pre.inventory.ownedItems, item.id)
  IN
  (purchase.pc = "done" /\ purchase.kind = "handlePurchase" /\ u # NoUser) =>
    \/ /\ userStats[u].heartPoints = purchase.pre.stats.heartPoints - item.price
       /\ granted
    \/ /\ purchase.failed # "none"
       /\ userStats[u].heartPoints = purchase.pre.stats.heartPoints
       /\ userInventory[u] = purchase.pre.inventory

====
